---- MODULE Spec2Model ----
(***************************************************************************)
(* Model of luke/cli.py: the training launcher (_run_training) and the     *)
(* checkpoint resume path (_resume_training), together with the checkpoint *)
(* directory they read.  File names are sequences of one-character        *)
(* strings, so that formatting ('%07d'), str.replace, str.startswith,      *)
(* substring tests, int() and the lexical order used by sorted() are      *)
(* computed as Python computes them.                                       *)
(***************************************************************************)
EXTENDS Integers, Sequences, FiniteSets, TLC

VARIABLES fs, store, run, saver, crashed, nremoves, call, runcall, made

vars == <<fs, store, run, saver, crashed, nremoves, call, runcall, made>>

----------------------------------------------------------------------------
(* Bounds of the model *)

NumSteps == 2
MaxRemoves == 1

(* Program constant: the field width of '%07d' *)
StepWidth == 7

----------------------------------------------------------------------------
(* Python values.  Every value is a tagged tuple, so values of different  *)
(* Python types are comparable and unequal.                                *)

None == <<"None">>
Json(d) == <<"json", d>>
PyInt(n) == <<"int", n>>
PyBool(b) == <<"bool", b>>
PyFloat(s) == <<"float", s>>
PyStr(s) == <<"str", s>>
PathVal(p) == <<"path", p>>

EmptyDict == [k \in {} |-> None]

\* dict.update(other): keys of other are added or overwritten
DictUpdate(d, other) ==
    [k \in (DOMAIN d) \cup (DOMAIN other) |->
        IF k \in DOMAIN other THEN other[k] ELSE d[k]]

\* d[key] = value
DictSet(d, key, value) ==
    [k \in (DOMAIN d) \cup {key} |-> IF k = key THEN value ELSE d[k]]

\* d.pop(key): the dict without key
DictPop(d, key) == [k \in (DOMAIN d) \ {key} |-> d[k]]

\* os.path.join(a, b) for a relative b
OsPathJoin(a, b) == <<a, b>>

----------------------------------------------------------------------------
(* Strings as sequences of characters *)

Alphabet ==
    <<".", "0", "1", "2", "3", "4", "5", "6", "7", "8", "9", "_",
      "a", "b", "c", "d", "e", "f", "g", "h", "i", "j", "k", "l", "m",
      "n", "o", "p", "q", "r", "s", "t", "u", "v", "w", "x", "y", "z">>

\* position of a character in code-point order
Ord(c) == CHOOSE i \in 1..Len(Alphabet) : Alphabet[i] = c

Digits == <<"0", "1", "2", "3", "4", "5", "6", "7", "8", "9">>

IsDigit(c) == \E i \in 1..10 : Digits[i] = c

DigitValue(c) == (CHOOSE i \in 1..10 : Digits[i] = c) - 1

\* Python's str < str : lexicographic by code point, a proper prefix is smaller
StrLess(s, t) ==
    \E i \in 1..Len(t) :
        /\ \A j \in 1..(i - 1) : j <= Len(s) /\ s[j] = t[j]
        /\ \/ i = Len(s) + 1
           \/ i <= Len(s) /\ Ord(s[i]) < Ord(t[i])

\* s.startswith(p)
StartsWith(s, p) ==
    /\ Len(p) <= Len(s)
    /\ \A i \in 1..Len(p) : s[i] = p[i]

\* sub in s
Contains(s, sub) ==
    \E k \in 0..(Len(s) - Len(sub)) :
        \A i \in 1..Len(sub) : s[k + i] = sub[i]

\* s.replace(old, new): every non-overlapping occurrence, left to right
RECURSIVE Replace(_, _, _)
Replace(s, old, new) ==
    IF Len(s) < Len(old) THEN s
    ELSE IF StartsWith(s, old)
         THEN new \o Replace(SubSeq(s, Len(old) + 1, Len(s)), old, new)
         ELSE <<s[1]>> \o Replace(Tail(s), old, new)

\* the decimal digits of n >= 0
RECURSIVE DecimalDigits(_)
DecimalDigits(n) ==
    IF n < 10 THEN <<Digits[n + 1]>>
    ELSE DecimalDigits(n \div 10) \o <<Digits[(n % 10) + 1]>>

\* '%0<w>d' % n : left-padded with zeros to at least w characters
ZeroPad(n, w) ==
    LET d == DecimalDigits(n)
    IN  IF Len(d) >= w THEN d
        ELSE [i \in 1..(w - Len(d)) |-> "0"] \o d

\* int(s) accepts s when it is a non-empty run of decimal digits
IsDecimal(s) == Len(s) > 0 /\ \A i \in 1..Len(s) : IsDigit(s[i])

RECURSIVE IntOf(_)
IntOf(s) ==
    IF Len(s) = 0 THEN 0
    ELSE 10 * IntOf(SubSeq(s, 1, Len(s) - 1)) + DigitValue(s[Len(s)])

\* sorted(names)[-1] : the greatest name of a non-empty set
SortedLast(names) ==
    CHOOSE f \in names : \A g \in names : g = f \/ StrLess(g, f)

----------------------------------------------------------------------------
(* String literals of cli.py *)

S_data_ == <<"d", "a", "t", "a", "_">>
S_step == <<"s", "t", "e", "p">>
S_data_step == <<"d", "a", "t", "a", "_", "s", "t", "e", "p">>
S_pkl == <<".", "p", "k", "l">>
S_bin == <<".", "b", "i", "n">>
S_data == <<"d", "a", "t", "a">>
S_model == <<"m", "o", "d", "e", "l">>
S_optimizer == <<"o", "p", "t", "i", "m", "i", "z", "e", "r">>
S_sparse_optimizer ==
    <<"s", "p", "a", "r", "s", "e", "_", "o", "p", "t", "i", "m", "i", "z", "e", "r">>

----------------------------------------------------------------------------
(* _run_training *)

\* the named options of run-training with their click defaults (a
\* representative subset of common_training_options; the others are carried
\* through exactly as batch_size is)
RunOptions(run_name, batch_size) ==
    [k \in {"corpus_data_file", "entity_vocab_file", "run_name",
            "base_output_dir", "base_log_dir", "batch_size",
            "gradient_accumulation_steps", "learning_rate", "lr_decay",
            "num_train_steps", "save_every", "model_file"} |->
        CASE k = "corpus_data_file" -> PyStr("corpus")
          [] k = "entity_vocab_file" -> PyStr("vocab")
          [] k = "run_name" -> PyStr(run_name)
          [] k = "base_output_dir" -> PyStr("out")
          [] k = "base_log_dir" -> PyStr("log")
          [] k = "batch_size" -> PyInt(batch_size)
          [] k = "gradient_accumulation_steps" -> PyInt(1)
          [] k = "learning_rate" -> PyFloat("1e-4")
          [] k = "lr_decay" -> PyBool(FALSE)
          [] k = "num_train_steps" -> PyInt(300000)
          [] k = "save_every" -> PyInt(5000)
          [] OTHER -> None]

\* mutant of MergeJson: the named options win over the JSON blob
MergeJsonNamedWins(json_data, kwargs) ==
    IF json_data # None THEN DictUpdate(json_data[2], kwargs) ELSE kwargs

\* kwargs.update(json.loads(json_data)) when json_data is not None
MergeJson(json_data, kwargs) ==
    IF json_data # None THEN DictUpdate(kwargs, json_data[2]) ELSE kwargs

\* the keyword arguments _run_training hands to train_func
RunTrainingKwargs(json_data, kwargs) ==
    LET kw1 == MergeJson(json_data, kwargs)
        run_name == kw1["run_name"][2]
        output_dir == OsPathJoin(kw1["base_output_dir"][2], run_name)
        kw2 == DictSet(DictPop(DictPop(kw1, "run_name"), "base_output_dir"),
                       "output_dir", PathVal(output_dir))
        log_dir == OsPathJoin(kw2["base_log_dir"][2], run_name)
    IN  DictSet(DictPop(kw2, "base_log_dir"), "log_dir", PathVal(log_dir))

\* the directories _run_training creates with os.makedirs
RunTrainingDirs(json_data, kwargs) ==
    LET kw1 == MergeJson(json_data, kwargs)
    IN  {OsPathJoin(kw1["base_output_dir"][2], kw1["run_name"][2]),
         OsPathJoin(kw1["base_log_dir"][2], kw1["run_name"][2])}

RunNames == {"job1", "job2"}

RunBatchSizes == {256, 64}

\* --json-data blobs given to run-training
RunJsonBlobs ==
    {None,
     Json([k \in {"batch_size"} |-> PyInt(32)]),
     Json([k \in {"max_seq_length"} |-> PyInt(128)]),
     Json([k \in {"batch_size", "masked_lm_prob"} |->
              IF k = "batch_size" THEN PyInt(16) ELSE PyFloat("0.2")]),
     Json([k \in {"run_name"} |-> PyStr("job3")]),
     Json([k \in {"base_output_dir", "base_log_dir"} |->
              IF k = "base_output_dir" THEN PyStr("ckpt") ELSE PyStr("tb")]),
     Json([k \in {"output_dir"} |-> PyStr("elsewhere")]),
     Json([k \in {"log_dir", "save_every"} |->
              IF k = "log_dir" THEN PyStr("elsewhere") ELSE PyInt(100)])}

NoRunCall ==
    [active |-> FALSE, json_data |-> None, kwargs |-> EmptyDict,
     train_kwargs |-> EmptyDict]

\* one invocation of run-training / run-e2e-training
RunTraining ==
    /\ ~runcall.active
    /\ \E json_data \in RunJsonBlobs, run_name \in RunNames,
          batch_size \in RunBatchSizes :
          LET kwargs == RunOptions(run_name, batch_size)
          IN  /\ made' = made \cup RunTrainingDirs(json_data, kwargs)
              /\ runcall' = [active |-> TRUE, json_data |-> json_data,
                             kwargs |-> kwargs,
                             train_kwargs |->
                                 RunTrainingKwargs(json_data, kwargs)]
    /\ UNCHANGED <<fs, store, run, saver, crashed, nremoves, call>>

\* the process ends
RunExit ==
    /\ runcall.active
    /\ runcall' = NoRunCall
    /\ UNCHANGED <<fs, store, run, saver, crashed, nremoves, call, made>>

----------------------------------------------------------------------------
(* The checkpoint directories and the training loop's save path *)

StepSeq == <<7, 70, 700, 9>>

\* the global steps at which a checkpoint may be taken
Steps == {StepSeq[i] : i \in 1..NumSteps}

\* the run-specific output directories base_output_dir/run_name
Dirs == {OsPathJoin("out", r) : r \in RunNames}

\* the directory of the training run that is taking checkpoints
RunDir == OsPathJoin("out", "job1")

\* the run arguments of the training run that writes into directory d: what
\* _run_training passed to the training function
RunArgsOf(d) == RunTrainingKwargs(None, RunOptions(d[2], 256))

\* <kind>_step<N>.<ext> with N as a fixed-width 7-digit number
ArtifactName(kind, n, ext) ==
    kind \o <<"_">> \o S_step \o ZeroPad(n, StepWidth) \o ext

DataName(n) == ArtifactName(S_data, n, S_pkl)
ModelName(n) == ArtifactName(S_model, n, S_bin)
OptimizerName(n) == ArtifactName(S_optimizer, n, S_bin)
SparseName(n) == ArtifactName(S_sparse_optimizer, n, S_bin)

\* every artifact name of step n
ArtifactNames(n) == {DataName(n), ModelName(n), OptimizerName(n), SparseName(n)}

\* the run state record of a checkpoint; records of the older layout carry
\* no epoch
DataRecord(d, n) ==
    IF run.epoch
    THEN [args |-> RunArgsOf(d), global_step |-> PyInt(n),
          page_chunks |-> <<"chunks", n>>, epoch |-> PyInt(2)]
    ELSE [args |-> RunArgsOf(d), global_step |-> PyInt(n),
          page_chunks |-> <<"chunks", n>>]

NoDir == <<"", "">>

IdleSaver == [active |-> FALSE, dir |-> NoDir, step |-> 0, sparse |-> FALSE,
              phase |-> "idle"]

NoCall ==
    [active |-> FALSE, json_data |-> None, output_dir |-> NoDir,
     global_step_arg |-> None, kwargs |-> EmptyDict, cwd |-> NoDir,
     raised |-> "", invoked |-> FALSE, data_file |-> <<>>,
     global_step |-> -1, train_args |-> EmptyDict]

\* steps of directory d for which a save was begun
StepsBegun(d) ==
    {n \in Steps : \/ \E name \in ArtifactNames(n) : <<d, name>> \in fs
                   \/ <<d, n>> \in crashed
                   \/ saver.active /\ saver.dir = d /\ saver.step = n}

\* the training loop reaches a save point: global_step is monotonic, every
\* step produces a new snapshot set
SaveBegin ==
    /\ ~call.active
    /\ ~saver.active
    /\ \E n \in Steps :
          /\ \A m \in StepsBegun(RunDir) : m < n
          /\ saver' = [active |-> TRUE, dir |-> RunDir, step |-> n,
                       sparse |-> run.sparse, phase |-> "model"]
    /\ UNCHANGED <<fs, store, run, crashed, nremoves, call, runcall, made>>

\* the model weights, the optimizer state and, when a sparse parameter
\* table exists, the sparse optimizer state are written
SaveArtifact ==
    /\ ~call.active
    /\ saver.active
    /\ saver.phase \in {"model", "optimizer", "sparse"}
    /\ LET name == CASE saver.phase = "model" -> ModelName(saver.step)
                     [] saver.phase = "optimizer" -> OptimizerName(saver.step)
                     [] OTHER -> SparseName(saver.step)
           next == CASE saver.phase = "model" -> "optimizer"
                     [] saver.phase = "optimizer" /\ saver.sparse -> "sparse"
                     [] OTHER -> "data"
       IN  /\ fs' = fs \cup {<<saver.dir, name>>}
           /\ saver' = [saver EXCEPT !.phase = next]
    /\ UNCHANGED <<store, run, crashed, nremoves, call, runcall, made>>

\* the data record is published last, in one step: it is what makes the
\* snapshot visible to a resume
SaveData ==
    /\ ~call.active
    /\ saver.active
    /\ saver.phase = "data"
    /\ LET path == <<saver.dir, DataName(saver.step)>>
       IN  /\ fs' = fs \cup {path}
           /\ store' = [p \in (DOMAIN store) \cup {path} |->
                           IF p = path
                           THEN DataRecord(saver.dir, saver.step)
                           ELSE store[p]]
    /\ saver' = IdleSaver
    /\ UNCHANGED <<run, crashed, nremoves, call, runcall, made>>

\* the saving process dies after writing some of the artifacts, before the
\* data record is published
SaveCrash ==
    /\ ~call.active
    /\ saver.active
    /\ saver.phase # "model"
    /\ crashed' = crashed \cup {<<saver.dir, saver.step>>}
    /\ saver' = IdleSaver
    /\ UNCHANGED <<fs, store, run, nremoves, call, runcall, made>>

\* a weights or optimizer file of a published checkpoint disappears
RemoveArtifact ==
    /\ ~call.active
    /\ ~saver.active
    /\ nremoves < MaxRemoves
    /\ \E f \in fs, n \in Steps :
          /\ f \notin DOMAIN store
          /\ f[2] \in ArtifactNames(n)
          /\ <<f[1], DataName(n)>> \in fs
          /\ fs' = fs \ {f}
    /\ nremoves' = nremoves + 1
    /\ UNCHANGED <<store, run, saver, crashed, call, runcall, made>>

----------------------------------------------------------------------------
(* _resume_training *)

\* os.listdir(dir): the names in directory dir
OsListdir(dir) == {f[2] : f \in {g \in fs : g[1] = dir}}

\* os.path.exists(name) for a relative name: resolved against the process's
\* current working directory
OsPathExists(name, cwd) == <<cwd, name>> \in fs

\* mutant of IsDataFile: the 'data_' prefix is not required
IsDataFileLoose(f) == Contains(f, S_step)

\* f.startswith('data_') and 'step' in f
IsDataFile(f) == StartsWith(f, S_data_) /\ Contains(f, S_step)

\* mutant of LatestDataFile: the first name of the sorted list, not the last
LatestDataFileFirst(names) ==
    CHOOSE f \in {g \in names : IsDataFile(g)} :
        \A g \in {h \in names : IsDataFile(h)} : g = f \/ StrLess(f, g)

\* sorted([f for f in os.listdir(output_dir) if ...])[-1]
LatestDataFile(names) == SortedLast({f \in names : IsDataFile(f)})

\* data_file.replace('data_step', '').replace('.pkl', '')
StepText(data_file) == Replace(Replace(data_file, S_data_step, <<>>), S_pkl, <<>>)

\* mutant of ExplicitDataFile: the step is formatted without zero padding
ExplicitDataFileUnpadded(global_step) ==
    S_data_step \o DecimalDigits(global_step) \o S_pkl

\* 'data_step%07d.pkl' % global_step
ExplicitDataFile(global_step) ==
    S_data_step \o ZeroPad(global_step, StepWidth) \o S_pkl

\* mutant of ModelFile: the extension is left as it is
ModelFileKeepExt(data_file) == Replace(data_file, S_data, S_model)

\* data_file.replace('.pkl', '.bin').replace('data', 'model')
ModelFile(data_file) == Replace(Replace(data_file, S_pkl, S_bin), S_data, S_model)

\* data_file.replace('.pkl', '.bin').replace('data', 'optimizer')
OptimizerFile(data_file) ==
    Replace(Replace(data_file, S_pkl, S_bin), S_data, S_optimizer)

\* data_file.replace('.pkl', '.bin').replace('data', 'sparse_optimizer')
SparseOptimizerFile(data_file) ==
    Replace(Replace(data_file, S_pkl, S_bin), S_data, S_sparse_optimizer)

\* data.get('epoch', 0)
EpochOf(data) == IF "epoch" \in DOMAIN data THEN data.epoch ELSE PyInt(0)

\* mutant of GlobalStepOf: the step the run started from, not the record's
GlobalStepStale(data) == PyInt(0)

\* data['global_step']
GlobalStepOf(data) == data.global_step

\* mutant of RestoreArgs: the record itself is taken for its args
RestoreArgsFromData(data, output_dir, data_file, cwd) ==
    LET a1 == DictSet(data, "global_step", GlobalStepOf(data))
        a2 == DictSet(a1, "epoch", EpochOf(data))
        a4 == DictSet(a2, "model_file",
                      PathVal(OsPathJoin(output_dir, ModelFile(data_file))))
    IN  DictSet(a4, "optimizer_file",
                PathVal(OsPathJoin(output_dir, OptimizerFile(data_file))))

\* args after the record is restored and the artifact paths are set
RestoreArgs(data, output_dir, data_file, cwd) ==
    LET a1 == DictSet(data.args, "global_step", GlobalStepOf(data))
        a2 == DictSet(a1, "epoch", EpochOf(data))
        a3 == DictSet(a2, "page_chunks", data.page_chunks)
        a4 == DictSet(a3, "model_file",
                      PathVal(OsPathJoin(output_dir, ModelFile(data_file))))
        a5 == DictSet(a4, "optimizer_file",
                      PathVal(OsPathJoin(output_dir, OptimizerFile(data_file))))
        sparse_optimizer_file == SparseOptimizerFile(data_file)
    IN  IF OsPathExists(sparse_optimizer_file, cwd)
        THEN DictSet(a5, "sparse_optimizer_file",
                     PathVal(OsPathJoin(output_dir, sparse_optimizer_file)))
        ELSE a5

\* mutant of ApplyOverrides: a None override is written too
ApplyOverridesClobber(args, kwargs) == DictUpdate(args, kwargs)

\* for (key, value) in kwargs.items(): if value is not None: args[key] = value
ApplyOverrides(args, kwargs) ==
    [k \in (DOMAIN args) \cup {j \in DOMAIN kwargs : kwargs[j] # None} |->
        IF k \in DOMAIN kwargs /\ kwargs[k] # None THEN kwargs[k] ELSE args[k]]

\* the call ends with an exception before the training function is reached
Raised(c, exc, data_file, global_step) ==
    [c EXCEPT !.raised = exc, !.data_file = data_file,
              !.global_step = global_step]

\* the whole of _resume_training, as the record of the call
ResumeTraining(json_data, output_dir, global_step, named, cwd) ==
    LET c == [NoCall EXCEPT !.active = TRUE, !.json_data = json_data,
                            !.output_dir = output_dir,
                            !.global_step_arg = global_step,
                            !.kwargs = named, !.cwd = cwd]
        kwargs == MergeJson(json_data, named)
        names == OsListdir(output_dir)
    IN  IF global_step = None /\ {f \in names : IsDataFile(f)} = {}
        THEN Raised(c, "IndexError", <<>>, -1)
        ELSE
        LET data_file == IF global_step = None THEN LatestDataFile(names)
                         ELSE ExplicitDataFile(global_step[2])
        IN  IF global_step = None /\ ~IsDecimal(StepText(data_file))
            THEN Raised(c, "ValueError", data_file, -1)
            ELSE
            LET step == IF global_step = None THEN IntOf(StepText(data_file))
                        ELSE global_step[2]
                path == OsPathJoin(output_dir, data_file)
            IN  IF path \notin DOMAIN store
                THEN Raised(c, "FileNotFoundError", data_file, step)
                ELSE [c EXCEPT !.data_file = data_file,
                               !.global_step = step,
                               !.invoked = TRUE,
                               !.train_args =
                                   ApplyOverrides(
                                       RestoreArgs(store[path], output_dir,
                                                   data_file, cwd),
                                       kwargs)]

\* the named options of resume-training: every one defaults to None
ResumeOptions(batch_size, lr_decay) ==
    [k \in {"batch_size", "gradient_accumulation_steps", "learning_rate",
            "lr_decay", "num_train_steps", "save_every"} |->
        CASE k = "batch_size" -> batch_size
          [] k = "lr_decay" -> lr_decay
          [] OTHER -> None]

ResumeOptionSets ==
    {ResumeOptions(None, None), ResumeOptions(PyInt(128), PyBool(FALSE))}

\* --json-data blobs given to resume-training
ResumeJsonBlobs ==
    {None,
     Json([k \in {"batch_size"} |-> PyInt(32)]),
     Json([k \in {"batch_size", "max_seq_length", "warmup_steps",
                   "model_file"} |->
              IF k = "max_seq_length" THEN PyInt(256) ELSE None]),
     Json([k \in {"global_step", "epoch"} |->
              IF k = "global_step" THEN PyInt(5) ELSE PyInt(3)]),
     Json([k \in {"model_file", "optimizer_file"} |->
              IF k = "model_file" THEN PyStr("pretrained") ELSE None])}

\* one invocation of resume-training / resume-e2e-training
Resume ==
    /\ ~call.active
    /\ ~saver.active
    /\ \E json_data \in ResumeJsonBlobs, output_dir \in Dirs, cwd \in Dirs,
          global_step \in {None} \cup {PyInt(n) : n \in Steps},
          named \in ResumeOptionSets :
          call' = ResumeTraining(json_data, output_dir, global_step, named, cwd)
    /\ UNCHANGED <<fs, store, run, saver, crashed, nremoves, runcall, made>>

\* the process ends
ResumeExit ==
    /\ call.active
    /\ call' = NoCall
    /\ UNCHANGED <<fs, store, run, saver, crashed, nremoves, runcall, made>>

----------------------------------------------------------------------------
(* Specifications *)

Init ==
    /\ fs = {}
    /\ store = EmptyDict
    /\ run \in [sparse : BOOLEAN, epoch : BOOLEAN]
    /\ saver = IdleSaver
    /\ crashed = {}
    /\ nremoves = 0
    /\ call = NoCall
    /\ runcall = NoRunCall
    /\ made = {}

Next ==
    \/ SaveBegin
    \/ SaveArtifact
    \/ SaveData
    \/ SaveCrash
    \/ RemoveArtifact
    \/ Resume
    \/ ResumeExit

\* the checkpoint directories and the resume command
Spec == Init /\ [][Next]_vars

NextRun ==
    \/ RunTraining
    \/ RunExit

\* the run command
SpecRun == Init /\ [][NextRun]_vars

----------------------------------------------------------------------------
(* Vocabulary of the properties *)

\* the overrides of the recorded resume call: named options merged with the
\* JSON blob, the blob winning
CallOverrides ==
    LET j == IF call.json_data = None THEN EmptyDict ELSE call.json_data[2]
    IN  [k \in (DOMAIN call.kwargs) \cup (DOMAIN j) |->
            IF k \in DOMAIN j THEN j[k] ELSE call.kwargs[k]]

\* key k carries a non-null override
Overridden(k) == k \in DOMAIN CallOverrides /\ CallOverrides[k] # None

\* the steps whose data record is in directory d
StepsWithData(d) == {n \in Steps : <<d, DataName(n)>> \in fs}

MaxOf(S) == CHOOSE n \in S : \A m \in S : m <= n

\* the record the recorded call loaded
CallRecord == store[<<call.output_dir, call.data_file>>]

\* the fields _resume_training sets itself from the record and the step
ReconstructedKeys ==
    {"global_step", "epoch", "page_chunks", "model_file", "optimizer_file",
     "sparse_optimizer_file"}

\* there is nothing to resume for the recorded call
NothingToResume ==
    IF call.global_step_arg = None
    THEN StepsWithData(call.output_dir) = {}
    ELSE <<call.output_dir, DataName(call.global_step_arg[2])>> \notin fs

NotFoundErrors == {"IndexError", "FileNotFoundError"}

----------------------------------------------------------------------------
(* C1: resumed without a step, _resume_training loads the data record of   *)
(* the numerically greatest step of output_dir and resolves that step.     *)
C1_LatestIsNumericMax ==
    (call.active /\ call.global_step_arg = None
        /\ StepsWithData(call.output_dir) # {})
    => LET top == MaxOf(StepsWithData(call.output_dir))
       IN  /\ call.raised = ""
           /\ call.invoked
           /\ call.data_file = DataName(top)
           /\ call.global_step = top
           /\ CallRecord.global_step = PyInt(top)

C1_Witness ==
    /\ call.active /\ call.global_step_arg = None
    /\ {7, 70} \subseteq StepsWithData(call.output_dir)
    /\ call.global_step = 70

C3_RoundTripEveryField ==
    (call.invoked /\ call.global_step_arg # None)
    => \A k \in DOMAIN RunArgsOf(call.output_dir) :
          /\ k \in DOMAIN call.train_args
          /\ Overridden(k) \/ call.train_args[k] = RunArgsOf(call.output_dir)[k]

(* C3 amended: the same, except for the overridden fields and the fields   *)
(* resume sets itself (global_step, epoch, page_chunks, model_file,        *)
(* optimizer_file, sparse_optimizer_file).                                 *)
C3_RoundTripStoredFields ==
    (call.invoked /\ call.global_step_arg # None)
    => \A k \in DOMAIN RunArgsOf(call.output_dir) :
          /\ k \in DOMAIN call.train_args
          /\ \/ Overridden(k)
             \/ k \in ReconstructedKeys
             \/ call.train_args[k] = RunArgsOf(call.output_dir)[k]

C3_Witness ==
    /\ call.invoked /\ call.global_step_arg = PyInt(70)
    /\ Overridden("batch_size")
    /\ call.train_args["save_every"] = RunArgsOf(call.output_dir)["save_every"]
    /\ call.train_args["model_file"] # RunArgsOf(call.output_dir)["model_file"]

C5_MissingArtifactIsFatal ==
    (call.active /\ call.global_step >= 0
        /\ <<call.output_dir, DataName(call.global_step)>> \in fs)
    => IF /\ <<call.output_dir, ModelName(call.global_step)>> \in fs
          /\ <<call.output_dir, OptimizerName(call.global_step)>> \in fs
       THEN call.invoked /\ call.raised = ""
       ELSE ~call.invoked /\ call.raised # ""

C7_SparseFollowsOutputDir ==
    (call.invoked /\ ~Overridden("sparse_optimizer_file"))
    => LET path == OsPathJoin(call.output_dir, SparseName(call.global_step))
       IN  /\ "sparse_optimizer_file" \in DOMAIN call.train_args <=> path \in fs
           /\ path \in fs
                 => call.train_args["sparse_optimizer_file"] = PathVal(path)

----------------------------------------------------------------------------
(* Vocabulary of the properties of run-training *)

RunJson == IF runcall.json_data = None THEN EmptyDict ELSE runcall.json_data[2]

\* the value of option k in effect: the JSON blob's, else the named option's
RunEffective(k) == IF k \in DOMAIN RunJson THEN RunJson[k] ELSE runcall.kwargs[k]

PoppedKeys == {"run_name", "base_output_dir", "base_log_dir"}

DerivedKeys == {"output_dir", "log_dir"}

\* the directories derived from the options in effect
RunDirsDerived ==
    /\ runcall.train_kwargs["output_dir"] =
          PathVal(OsPathJoin(RunEffective("base_output_dir")[2],
                             RunEffective("run_name")[2]))
    /\ runcall.train_kwargs["log_dir"] =
          PathVal(OsPathJoin(RunEffective("base_log_dir")[2],
                             RunEffective("run_name")[2]))
    /\ PoppedKeys \cap DOMAIN runcall.train_kwargs = {}

\* without a JSON blob the named options are passed unchanged
RunNamedUnchanged ==
    runcall.json_data = None
    => /\ DOMAIN runcall.train_kwargs =
             ((DOMAIN runcall.kwargs) \ PoppedKeys) \cup DerivedKeys
       /\ \A k \in (DOMAIN runcall.kwargs) \ PoppedKeys :
             runcall.train_kwargs[k] = runcall.kwargs[k]

(* C8 as stated: every key of the JSON blob reaches the training function  *)
(* with the JSON value; output_dir and log_dir are derived; run_name and   *)
(* the base directories are not passed.                                    *)
C8_EveryJsonKeyWins ==
    runcall.active =>
      /\ \A k \in (DOMAIN RunJson) \ PoppedKeys :
            /\ k \in DOMAIN runcall.train_kwargs
            /\ runcall.train_kwargs[k] = RunJson[k]
      /\ RunDirsDerived
      /\ RunNamedUnchanged

(* C8 amended: every key of the JSON blob other than output_dir and        *)
(* log_dir reaches the training function with the JSON value; output_dir   *)
(* and log_dir are always the derived directories.                         *)
C8_JsonKeyWinsButDerived ==
    runcall.active =>
      /\ \A k \in (DOMAIN RunJson) \ (PoppedKeys \cup DerivedKeys) :
            /\ k \in DOMAIN runcall.train_kwargs
            /\ runcall.train_kwargs[k] = RunJson[k]
      /\ \A k \in (DOMAIN runcall.kwargs) \ (PoppedKeys \cup DOMAIN RunJson) :
            runcall.train_kwargs[k] = runcall.kwargs[k]
      /\ RunDirsDerived
      /\ RunNamedUnchanged

C8_Witness ==
    /\ runcall.active
    /\ runcall.kwargs["batch_size"] = PyInt(256)
    /\ "batch_size" \in DOMAIN RunJson
    /\ "masked_lm_prob" \in DOMAIN RunJson
    /\ runcall.train_kwargs["batch_size"] = PyInt(16)
    /\ runcall.train_kwargs["masked_lm_prob"] = PyFloat("0.2")

----------------------------------------------------------------------------
(* C9 as stated: the model_file and optimizer_file passed to the training  *)
(* function are output_dir/model_step<N>.bin and                           *)
(* output_dir/optimizer_step<N>.bin for the step N of the loaded record.   *)
C9_PathsCoIndexed ==
    call.invoked =>
      /\ call.data_file = DataName(call.global_step)
      /\ call.train_args["model_file"] =
            PathVal(OsPathJoin(call.output_dir, ModelName(call.global_step)))
      /\ call.train_args["optimizer_file"] =
            PathVal(OsPathJoin(call.output_dir, OptimizerName(call.global_step)))

(* C9 amended: the same for each of the two paths that no non-null         *)
(* override replaces.                                                       *)
C9_PathsCoIndexedUnlessOverridden ==
    call.invoked =>
      /\ call.data_file = DataName(call.global_step)
      /\ \/ Overridden("model_file")
         \/ call.train_args["model_file"] =
               PathVal(OsPathJoin(call.output_dir, ModelName(call.global_step)))
      /\ \/ Overridden("optimizer_file")
         \/ call.train_args["optimizer_file"] =
               PathVal(OsPathJoin(call.output_dir,
                                  OptimizerName(call.global_step)))

C9_Witness ==
    /\ call.invoked /\ call.global_step_arg = None
    /\ ~Overridden("model_file")
    /\ call.train_args["model_file"] =
          PathVal(OsPathJoin(call.output_dir, ModelName(70)))
    /\ call.train_args["optimizer_file"] =
          PathVal(OsPathJoin(call.output_dir, OptimizerName(70)))

\* the global_step passed is the step of the artifact paths passed
StepMatchesPaths ==
    \E n \in Steps :
       /\ call.train_args["global_step"] = PyInt(n)
       /\ call.train_args["model_file"] =
             PathVal(OsPathJoin(call.output_dir, ModelName(n)))
       /\ call.train_args["optimizer_file"] =
             PathVal(OsPathJoin(call.output_dir, OptimizerName(n)))

\* the epoch passed is the record's, or 0 when the record has none
EpochMatchesRecord ==
    call.train_args["epoch"] =
       (IF "epoch" \in DOMAIN CallRecord THEN CallRecord.epoch ELSE PyInt(0))

(* C10 as stated: in every call that reaches the training function the     *)
(* global_step passed is the step of the model_file and optimizer_file     *)
(* passed, and the epoch passed is the record's or 0.                      *)
C10_StepEpochConsistent ==
    call.invoked => StepMatchesPaths /\ EpochMatchesRecord

(* C10 amended: the same, provided the overrides carry no non-null         *)
(* global_step, model_file or optimizer_file (for the step) and no         *)
(* non-null epoch (for the epoch).                                         *)
C10_StepEpochConsistentUnlessOverridden ==
    call.invoked =>
      /\ (~Overridden("global_step") /\ ~Overridden("model_file")
             /\ ~Overridden("optimizer_file")) => StepMatchesPaths
      /\ ~Overridden("epoch") => EpochMatchesRecord

C10_Witness ==
    /\ call.invoked
    /\ call.json_data # None
    /\ "model_file" \in DOMAIN CallOverrides
    /\ ~Overridden("model_file")
    /\ "epoch" \notin DOMAIN CallRecord
    /\ call.train_args["global_step"] = PyInt(70)
    /\ call.train_args["epoch"] = PyInt(0)

====
